---------------------------- MODULE Spec2Model ----------------------------
(***************************************************************************)
(* Model of terminal_monitoring.py: the poll / reconcile loop that tracks  *)
(* per-user terminal session time in an SQLite database.                   *)
(*                                                                         *)
(* Time is counted in seconds since 01.01.2025 09:00:00.  The database is  *)
(* modelled by its committed contents (dbActive, dbUsers) and by the       *)
(* uncommitted working copy of the connection that check_completed_sessions*)
(* holds open (txActive, txOpen).  SQLite allows one writer at a time: a   *)
(* second connection that tries to write while txOpen holds gets           *)
(* "database is locked" (sqlite3.OperationalError) after its busy timeout. *)
(***************************************************************************)
EXTENDS Integers, Sequences, FiniteSets, TLC

(***************************************************************************)
(* Bounds of the model.                                                    *)
(***************************************************************************)
\* number of check cycles after which the loop is no longer followed
MaxCycles == 2
\* largest number of rows one quser answer holds
MaxRows == 1

(***************************************************************************)
(* Program constants and input domains.                                    *)
(***************************************************************************)
\* SERVERS: the list of monitored servers (two of the configured names)
SERVERS == <<"server1", "server2">>

\* CHECK_INTERVAL, seconds slept between two cycles
CHECK_INTERVAL == 60

\* the user name get_active_sessions and update_user_time ignore
IgnoredUser == "admin"

\* extra seconds a cycle may take on top of the sleep (a fetch timeout)
Delays == {0, 30}

\* a row of quser output after line.split(): parts[0], parts[2] and
\* parts[-2] + " " + parts[-1] (the State column is stored but never read)
Row(u, id, logon) == [Username |-> u, SessionId |-> id, LogonTime |-> logon]

\* the rows a server may report: two users with the same session id, a second
\* session id, a logon time ahead of the clock, a logon time in another
\* format (quser of an English system prints "1/1/2025 9:00 AM"), a session
\* of the ignored user and a system session
RawRows ==
    {Row("alice", "3", "01.01.2025 09:00"),
     Row("bob", "3", "01.01.2025 09:00"),
     Row("bob", "5", "01.01.2025 09:10"),
     Row("alice", "5", "9:00 AM"),
     Row("admin", "5", "01.01.2025 09:00"),
     Row("alice", "services", "01.01.2025 09:00")}

Usernames == {r.Username : r \in RawRows}

SessionIds == {r.SessionId : r \in RawRows}

RowSeqs == UNION {[1..n -> RawRows] : n \in 0..MaxRows}

\* what subprocess.run gives for one server: ok = FALSE is a timeout, an
\* exception or a non-zero exit code; "No users exist" is ok with no rows
HostResults == [ok : {FALSE}, rows : {<<>>}] \cup [ok : {TRUE}, rows : RowSeqs]

(***************************************************************************)
(* Pure helpers.                                                           *)
(***************************************************************************)
\* str.isdigit() on the session ids of the model
IsDigit(s) == s \in {"3", "5"}

\* datetime.strptime(s, "%d.%m.%Y %H:%M") succeeds
Parseable(s) == s \in {"01.01.2025 09:00", "01.01.2025 09:10"}

\* datetime.strptime(s, "%d.%m.%Y %H:%M"), in seconds since 01.01.2025 09:00
Strptime(s) == IF s = "01.01.2025 09:00" THEN 0 ELSE 600

\* Python's round(seconds / 60): nearest minute, ties to the even minute
RoundMinutes(sec) ==
    LET q == sec \div 60
        r == sec % 60
    IN  IF r < 30 THEN q
        ELSE IF r > 30 THEN q + 1
        ELSE IF q % 2 = 0 THEN q ELSE q + 1

\* round((current_time - logon_time).total_seconds() / 60)
SessionDuration(t, logon) == RoundMinutes(t - Strptime(logon))

\* TotalMinutes of a user, 0 when the user has no row (the COALESCE)
TotalMinutes(users, u) == IF u \in DOMAIN users THEN users[u] ELSE 0

\* get_active_sessions without the test on the ignored user
GetActiveSessionsKeepAdmin(result) ==
    IF ~result.ok THEN <<>>
    ELSE SelectSeq(result.rows, LAMBDA r : IsDigit(r.SessionId))

\* get_active_sessions: [] on any failure, else the rows that are neither
\* system sessions nor sessions of the ignored user
GetActiveSessions(result) ==
    IF ~result.ok THEN <<>>
    ELSE SelectSeq(result.rows,
                   LAMBDA r : IsDigit(r.SessionId) /\ r.Username # IgnoredUser)

\* update_user_time as if its connection were not blocked by the open one
UpdateUserTimeNoLock(users, locked, username, duration) ==
    IF username = IgnoredUser THEN [users |-> users, error |-> FALSE]
    ELSE [users |-> [x \in DOMAIN users \cup {username} |->
                        IF x = username THEN TotalMinutes(users, username) + duration
                        ELSE users[x]],
          error |-> FALSE]

\* update_user_time: nothing for the ignored user; else an upsert through a
\* connection of its own, which fails with "database is locked" (caught and
\* logged) while another connection holds an open write transaction
UpdateUserTime(users, locked, username, duration) ==
    IF username = IgnoredUser THEN [users |-> users, error |-> FALSE]
    ELSE IF locked THEN [users |-> users, error |-> TRUE]
    ELSE [users |-> [x \in DOMAIN users \cup {username} |->
                        IF x = username THEN TotalMinutes(users, username) + duration
                        ELSE users[x]],
          error |-> FALSE]

\* active_session_ids
ActiveSessionIds(sessions) == {sessions[i].SessionId : i \in DOMAIN sessions}

\* a DELETE whose WHERE clause matches no row
DeleteSessionNoMatch(rows, id) == rows

\* DELETE FROM ActiveSessions WHERE SessionId = ?
DeleteSession(rows, id) == SelectSeq(rows, LAMBDA r : r.SessionId # id)

\* SELECT 1 FROM ActiveSessions WHERE SessionId = ?
SessionExists(rows, id) == \E i \in DOMAIN rows : rows[i].SessionId = id

\* the loop over db_sessions, from row i on: acc.rows is the working copy of
\* ActiveSessions, acc.completed is completed_sessions, acc.error tells that
\* strptime raised ValueError
RECURSIVE CloseoutFrom(_, _, _, _, _)
CloseoutFrom(i, db, ids, t, acc) ==
    IF i > Len(db) THEN acc
    ELSE IF db[i].SessionId \in ids THEN CloseoutFrom(i + 1, db, ids, t, acc)
    ELSE IF ~Parseable(db[i].LogonTime) THEN [acc EXCEPT !.error = TRUE]
    ELSE CloseoutFrom(i + 1, db, ids, t,
             [rows |-> DeleteSession(acc.rows, db[i].SessionId),
              completed |-> Append(acc.completed,
                                   [Username |-> db[i].Username,
                                    Duration |-> SessionDuration(t, db[i].LogonTime)]),
              error |-> FALSE])

\* the loop over completed_sessions that calls update_user_time
RECURSIVE UpdateFrom(_, _, _, _)
UpdateFrom(i, completed, locked, acc) ==
    IF i > Len(completed) THEN acc
    ELSE LET r == UpdateUserTime(acc.users, locked,
                                 completed[i].Username, completed[i].Duration)
         IN  UpdateFrom(i + 1, completed, locked,
                 [users |-> r.users,
                  failed |-> IF r.error THEN Append(acc.failed, completed[i])
                             ELSE acc.failed])

\* the loop over active_sessions that inserts the sessions not yet stored,
\* without the SELECT that looks for the session id
RECURSIVE InsertFromNoCheck(_, _, _)
InsertFromNoCheck(i, sessions, rows) ==
    IF i > Len(sessions) THEN rows
    ELSE InsertFromNoCheck(i + 1, sessions, Append(rows, sessions[i]))

\* the loop over active_sessions with INSERT OR REPLACE in place of the
\* SELECT and INSERT: an observed session takes the place of the stored row
RECURSIVE InsertFromReplace(_, _, _)
InsertFromReplace(i, sessions, rows) ==
    IF i > Len(sessions) THEN rows
    ELSE InsertFromReplace(i + 1, sessions,
             Append(SelectSeq(rows, LAMBDA r : r.SessionId # sessions[i].SessionId),
                    sessions[i]))

\* the loop over active_sessions that inserts the sessions not yet stored
RECURSIVE InsertFrom(_, _, _)
InsertFrom(i, sessions, rows) ==
    IF i > Len(sessions) THEN rows
    ELSE IF SessionExists(rows, sessions[i].SessionId)
         THEN InsertFrom(i + 1, sessions, rows)
         ELSE InsertFrom(i + 1, sessions, Append(rows, sessions[i]))


\* check_completed_sessions as a whole, on the committed tables it finds:
\* the tables it leaves, and whether it raised ValueError (then nothing is
\* committed).  update_user_time runs while the DELETEs are uncommitted.
CheckCompletedSessions(active, users, sessions, t) ==
    LET c == CloseoutFrom(1, active, ActiveSessionIds(sessions), t,
                          [rows |-> active, completed |-> <<>>, error |-> FALSE])
        u == UpdateFrom(1, c.completed, c.completed # <<>>,
                        [users |-> users, failed |-> <<>>])
    IN  IF c.error THEN [active |-> active, users |-> users, raised |-> TRUE]
        ELSE [active |-> InsertFrom(1, sessions, c.rows), users |-> u.users,
              raised |-> FALSE]

(***************************************************************************)
(* State.                                                                  *)
(***************************************************************************)
VARIABLES
    pc,                  \* position of the process in main / check_completed_sessions
    server,              \* index in SERVERS of the next server to fetch
    all_active_sessions, \* main: the sessions gathered in this cycle
    now,                 \* the wall clock, seconds since 01.01.2025 09:00:00
    current_time,        \* check_completed_sessions: datetime.now() at its start
    db_sessions,         \* check_completed_sessions: the rows read at its start
    completed_sessions,  \* check_completed_sessions: (username, duration) pairs
    txActive,            \* ActiveSessions as the open connection sees it
    txOpen,              \* the open connection holds a write transaction
    dbActive,            \* committed rows of table ActiveSessions, in rowid order
    dbUsers,             \* committed table Users: username -> TotalMinutes
    exit_cause,          \* why the process ended: "none", "exception", "interrupt", "killed"
    \* history variables, read by the properties only
    session_server,      \* the server that reported each entry of all_active_sessions
    failed_servers,      \* the servers whose fetch failed in this cycle
    recHost,             \* numeric session id -> server whose session the stored row is
    startUsers,          \* table Users when check_completed_sessions started
    failed_updates,      \* the completed sessions whose update_user_time failed
    committed,           \* conn.commit() of this cycle was reached
    storage_fault,       \* a statement of the open connection raised sqlite3.Error
    lost_tx,             \* the process ended with uncommitted writes
    survived             \* ids of the stored rows that were stored at a restart

vars == <<pc, server, all_active_sessions, now, current_time, db_sessions,
          completed_sessions, txActive, txOpen, dbActive, dbUsers, exit_cause,
          session_server, failed_servers, recHost, startUsers, failed_updates,
          committed, storage_fault, lost_tx, survived>>

NumericIds == {id \in SessionIds : IsDigit(id)}

TrackedUsers == Usernames \ {IgnoredUser}

\* positions inside check_completed_sessions, after its loop over db_sessions
InCheck == {"update", "insert", "commit"}

\* positions at which the process runs
Running == {"fetch", "closeout", "sleep"} \cup InCheck

\* the ActiveSessions table the program may find at start: sessions.db is kept
\* between runs (CREATE TABLE IF NOT EXISTS), so rows of an earlier run or
\* version may be there, here one of the ignored user
InitialStores == {<<>>, <<Row(IgnoredUser, "5", "01.01.2025 09:00")>>}

\* the server that reported the first session with this id in the snapshot
FirstServerOf(id) ==
    LET idx == {i \in DOMAIN all_active_sessions : all_active_sessions[i].SessionId = id}
        first == CHOOSE i \in idx : \A j \in idx : i <= j
    IN  session_server[first]

\* recHost for the table a committed cycle leaves: the rows it inserted belong
\* to the server whose session was inserted.  Until the cycle's locals are
\* dropped, recHost describes the table the cycle started from (db_sessions).
NextRecHost ==
    IF ~committed THEN recHost
    ELSE [id \in NumericIds |->
            IF ~SessionExists(dbActive, id) THEN "none"
            ELSE IF SessionExists(db_sessions, id) THEN recHost[id]
            ELSE FirstServerOf(id)]

\* survived for the table a cycle leaves: the rows the cycle kept.  Like
\* recHost it describes db_sessions until the cycle's locals are dropped.
NextSurvived ==
    IF ~committed THEN survived
    ELSE {id \in survived : SessionExists(db_sessions, id) /\ SessionExists(dbActive, id)}

\* the locals of main's loop body, as each iteration initialises them
ResetFetch ==
    /\ server' = 1
    /\ all_active_sessions' = <<>>
    /\ session_server' = <<>>
    /\ failed_servers' = {}
    /\ current_time' = 0
    /\ completed_sessions' = <<>>
    /\ failed_updates' = <<>>
    /\ committed' = FALSE
    /\ storage_fault' = FALSE

\* the process ends: its locals and the uncommitted writes are gone
EndProcess ==
    /\ lost_tx' = txOpen
    /\ txActive' = dbActive
    /\ txOpen' = FALSE
    /\ db_sessions' = IF txOpen THEN db_sessions ELSE <<>>
    /\ startUsers' = IF txOpen THEN startUsers ELSE dbUsers
    /\ recHost' = NextRecHost
    /\ survived' = {}
    /\ ResetFetch

Init ==
    /\ pc = "fetch"
    /\ server = 1
    /\ all_active_sessions = <<>>
    /\ now = 0
    /\ current_time = 0
    /\ db_sessions = <<>>
    /\ completed_sessions = <<>>
    /\ dbActive \in InitialStores
    /\ txActive = dbActive
    /\ txOpen = FALSE
    /\ dbUsers = <<>>
    /\ exit_cause = "none"
    /\ session_server = <<>>
    /\ failed_servers = {}
    /\ recHost = [id \in NumericIds |-> "none"]
    /\ startUsers = <<>>
    /\ failed_updates = <<>>
    /\ committed = FALSE
    /\ storage_fault = FALSE
    /\ lost_tx = FALSE
    /\ survived = {}

(***************************************************************************)
(* One iteration of "for server in SERVERS" with the call of               *)
(* check_completed_sessions inside the loop: reconciliation starts as soon *)
(* as one server has answered.                                             *)
(***************************************************************************)
FetchServerNoWait ==
    /\ pc = "fetch"
    /\ server <= Len(SERVERS)
    /\ \E result \in HostResults :
         LET sessions == GetActiveSessions(result) IN
         /\ all_active_sessions' = all_active_sessions \o sessions
         /\ session_server' = session_server \o [i \in 1..Len(sessions) |-> SERVERS[server]]
         /\ failed_servers' = IF result.ok THEN failed_servers
                              ELSE failed_servers \cup {SERVERS[server]}
    /\ server' = server + 1
    /\ pc' = "closeout"
    /\ UNCHANGED <<now, current_time, db_sessions, completed_sessions, txActive,
                   txOpen, dbActive, dbUsers, exit_cause, recHost, startUsers,
                   failed_updates, committed, storage_fault, lost_tx, survived>>

(***************************************************************************)
(* main: one iteration of "for server in SERVERS".                         *)
(***************************************************************************)
FetchServer ==
    /\ pc = "fetch"
    /\ server <= Len(SERVERS)
    /\ \E result \in HostResults :
         LET sessions == GetActiveSessions(result) IN
         /\ all_active_sessions' = all_active_sessions \o sessions
         /\ session_server' = session_server \o [i \in 1..Len(sessions) |-> SERVERS[server]]
         /\ failed_servers' = IF result.ok THEN failed_servers
                              ELSE failed_servers \cup {SERVERS[server]}
    /\ server' = server + 1
    /\ pc' = IF server = Len(SERVERS) THEN "closeout" ELSE "fetch"
    /\ UNCHANGED <<now, current_time, db_sessions, completed_sessions, txActive,
                   txOpen, dbActive, dbUsers, exit_cause, recHost, startUsers,
                   failed_updates, committed, storage_fault, lost_tx, survived>>

(***************************************************************************)
(* check_completed_sessions, from datetime.now() and the SELECT to the end *)
(* of the loop over db_sessions.  A ValueError of strptime is no           *)
(* sqlite3.Error: it leaves the with block (rollback), the function and    *)
(* the while loop of main, whose "except Exception" logs it; main then     *)
(* returns.                                                                *)
(***************************************************************************)
Closeout ==
    /\ pc = "closeout"
    /\ LET r == CloseoutFrom(1, dbActive, ActiveSessionIds(all_active_sessions), now,
                             [rows |-> dbActive, completed |-> <<>>, error |-> FALSE])
       IN  IF r.error
           THEN /\ pc' = "done"
                /\ exit_cause' = "exception"
                /\ EndProcess
           ELSE /\ current_time' = now
                /\ db_sessions' = dbActive
                /\ startUsers' = dbUsers
                /\ txActive' = r.rows
                /\ txOpen' = (r.completed # <<>>)
                /\ completed_sessions' = r.completed
                /\ pc' = "update"
                /\ UNCHANGED <<server, all_active_sessions, exit_cause,
                               session_server, failed_servers, recHost,
                               failed_updates, committed, storage_fault, lost_tx,
                               survived>>
    /\ UNCHANGED <<now, dbActive, dbUsers>>

(***************************************************************************)
(* check_completed_sessions, the loop over completed_sessions: every       *)
(* update_user_time opens, writes and commits a connection of its own.     *)
(***************************************************************************)
UpdateUsers ==
    /\ pc = "update"
    /\ LET r == UpdateFrom(1, completed_sessions, txOpen,
                           [users |-> dbUsers, failed |-> <<>>])
       IN  /\ dbUsers' = r.users
           /\ failed_updates' = r.failed
    /\ pc' = "insert"
    /\ UNCHANGED <<server, all_active_sessions, now, current_time, db_sessions,
                   completed_sessions, txActive, txOpen, dbActive, exit_cause,
                   session_server, failed_servers, recHost, startUsers, committed,
                   storage_fault, lost_tx, survived>>

(***************************************************************************)
(* check_completed_sessions, the loop over active_sessions.                *)
(***************************************************************************)
InsertNew ==
    /\ pc = "insert"
    /\ txActive' = InsertFrom(1, all_active_sessions, txActive)
    /\ txOpen' = (txOpen \/ txActive' # txActive)
    /\ pc' = "commit"
    /\ UNCHANGED <<server, all_active_sessions, now, current_time, db_sessions,
                   completed_sessions, dbActive, dbUsers, exit_cause,
                   session_server, failed_servers, recHost, startUsers,
                   failed_updates, committed, storage_fault, lost_tx, survived>>

(***************************************************************************)
(* check_completed_sessions, conn.commit(): the deletes and inserts of the  *)
(* cycle become the committed table.                                       *)
(***************************************************************************)
Commit ==
    /\ pc = "commit"
    /\ dbActive' = txActive
    /\ txOpen' = FALSE
    /\ committed' = TRUE
    /\ pc' = "sleep"
    /\ UNCHANGED <<server, all_active_sessions, now, current_time, db_sessions,
                   completed_sessions, txActive, dbUsers, exit_cause,
                   session_server, failed_servers, recHost, startUsers,
                   failed_updates, storage_fault, lost_tx, survived>>

(***************************************************************************)
(* A statement of the open connection raises sqlite3.Error (disk full,     *)
(* I/O error): the with block rolls back, the except clause of              *)
(* check_completed_sessions logs it, and main goes on to sleep.            *)
(***************************************************************************)
StorageError ==
    /\ pc \in {"closeout", "insert", "commit"}
    /\ txActive' = dbActive
    /\ txOpen' = FALSE
    /\ storage_fault' = TRUE
    /\ db_sessions' = IF pc = "closeout" THEN dbActive ELSE db_sessions
    /\ startUsers' = IF pc = "closeout" THEN dbUsers ELSE startUsers
    /\ pc' = "sleep"
    /\ UNCHANGED <<server, all_active_sessions, now, current_time,
                   completed_sessions, dbActive, dbUsers, exit_cause,
                   session_server, failed_servers, recHost, failed_updates,
                   committed, lost_tx, survived>>

(***************************************************************************)
(* main: time.sleep(CHECK_INTERVAL), then the next iteration of the loop.  *)
(***************************************************************************)
Sleep ==
    /\ pc = "sleep"
    /\ now < MaxCycles * CHECK_INTERVAL
    /\ \E d \in Delays : now' = now + CHECK_INTERVAL + d
    /\ ResetFetch
    /\ db_sessions' = <<>>
    /\ startUsers' = dbUsers
    /\ recHost' = NextRecHost
    /\ survived' = NextSurvived
    /\ pc' = "fetch"
    /\ UNCHANGED <<txActive, txOpen, dbActive, dbUsers, exit_cause, lost_tx>>

(***************************************************************************)
(* main: KeyboardInterrupt.  It is raised wherever the process is; inside  *)
(* the with block the open transaction is rolled back.  main logs and      *)
(* returns.                                                                *)
(***************************************************************************)
KeyboardInterrupt ==
    /\ pc \in Running
    /\ exit_cause' = "interrupt"
    /\ pc' = "done"
    /\ EndProcess
    /\ UNCHANGED <<now, dbActive, dbUsers>>

(***************************************************************************)
(* The process is killed or the machine stops: what was not committed is   *)
(* lost, the database file keeps its committed contents.                   *)
(***************************************************************************)
Crash ==
    /\ pc \in Running
    /\ exit_cause' = "killed"
    /\ pc' = "dead"
    /\ EndProcess
    /\ UNCHANGED <<now, dbActive, dbUsers>>

(***************************************************************************)
(* The script is started again: initialize_database finds the tables and   *)
(* leaves their rows, main enters its loop.                                *)
(***************************************************************************)
Startup(stored) ==
    /\ pc \in {"done", "dead"}
    /\ exit_cause' = "none"
    /\ lost_tx' = FALSE
    /\ survived' = stored
    /\ ResetFetch
    /\ db_sessions' = <<>>
    /\ startUsers' = dbUsers
    /\ pc' = "fetch"
    /\ UNCHANGED <<now, txActive, txOpen, dbActive, dbUsers, recHost>>

\* a restart that keeps no history of the rows it found
Restart == Startup({})

\* the same restart, remembering in survived the rows it found stored
RestartRecorded == Startup(ActiveSessionIds(dbActive))

Next ==
    \/ FetchServer
    \/ Closeout
    \/ UpdateUsers
    \/ InsertNew
    \/ Commit
    \/ StorageError
    \/ Sleep
    \/ KeyboardInterrupt
    \/ Crash
    \/ Restart

Spec == Init /\ [][Next]_vars

\* the same program with the history of restarts kept
NextRecorded ==
    \/ FetchServer
    \/ Closeout
    \/ UpdateUsers
    \/ InsertNew
    \/ Commit
    \/ StorageError
    \/ Sleep
    \/ KeyboardInterrupt
    \/ Crash
    \/ RestartRecorded

RestartSpec == Init /\ [][NextRecorded]_vars

TypeOK ==
    /\ pc \in Running \cup {"done", "dead"}
    /\ server \in 1..(Len(SERVERS) + 1)
    /\ now \in Nat
    /\ txOpen \in BOOLEAN
    /\ survived \subseteq NumericIds
    /\ Len(session_server) = Len(all_active_sessions)
    /\ \A i \in DOMAIN dbActive : IsDigit(dbActive[i].SessionId)
    /\ (pc = "sleep" /\ committed) =>
          LET r == CheckCompletedSessions(db_sessions, startUsers,
                                          all_active_sessions, current_time)
          IN  ~r.raised /\ r.active = dbActive /\ r.users = dbUsers

(***************************************************************************)
(* Helpers of the properties.                                              *)
(***************************************************************************)
\* the cycle went through conn.commit() and main has not yet gone on
CycleCommitted == pc = "sleep" /\ committed

\* the minutes of the entries of completed_sessions that belong to user u
RECURSIVE CompletedMinutes(_, _)
CompletedMinutes(completed, u) ==
    IF completed = <<>> THEN 0
    ELSE (IF Head(completed).Username = u THEN Head(completed).Duration ELSE 0)
         + CompletedMinutes(Tail(completed), u)

\* the rows of a table as a set
RowSet(rows) == {rows[i] : i \in DOMAIN rows}

\* the sessions of this cycle's snapshot that server srv reported
SessionsOf(srv) ==
    LET idx == {i \in DOMAIN all_active_sessions : session_server[i] = srv}
    IN  {all_active_sessions[i] : i \in idx}

\* the snapshot of this cycle with the answer of server srv replaced by alt
RECURSIVE SnapshotWith(_, _, _)
SnapshotWith(k, srv, alt) ==
    IF k > Len(SERVERS) THEN <<>>
    ELSE (IF SERVERS[k] = srv THEN alt
          ELSE SelectSeq(all_active_sessions,
                         LAMBDA x : x \in SessionsOf(SERVERS[k])))
         \o SnapshotWith(k + 1, srv, alt)

\* the session ids that concern server srv in this cycle: those it reported
\* and those of the stored rows that are its sessions
IdsOf(srv) ==
    {x.SessionId : x \in SessionsOf(srv)}
    \cup {id \in NumericIds : SessionExists(db_sessions, id) /\ recHost[id] = srv}

(***************************************************************************)
(* C1.  No double counting: a session seen in one or more cycles and then  *)
(* gone has its duration added to the total of its user exactly once: when *)
(* a cycle has committed, the total of every tracked user is its total at  *)
(* the start of the cycle plus the minutes of the sessions of that user    *)
(* the cycle closed out.                                                   *)
(***************************************************************************)
C1_DurationAddedOnce ==
    CycleCommitted =>
        \A u \in TrackedUsers :
            TotalMinutes(dbUsers, u)
                = TotalMinutes(startUsers, u) + CompletedMinutes(completed_sessions, u)

(***************************************************************************)
(* C2.  When the fetch of a server failed in a cycle, the stored rows of   *)
(* that server's sessions are still stored, unchanged, after the cycle,    *)
(* and the cycle closed out none of them.                                  *)
(***************************************************************************)
C2_FailedHostUntouched ==
    CycleCommitted =>
        LET ofFailed == {i \in DOMAIN db_sessions :
                            recHost[db_sessions[i].SessionId] \in failed_servers}
        IN  /\ \A i \in ofFailed : db_sessions[i] \in RowSet(dbActive)
            /\ Len(completed_sessions) <= Len(db_sessions) - Cardinality(ofFailed)

(***************************************************************************)
(* C3.  Isolation across servers: when the fetch of server b failed and    *)
(* the cycle committed, the rows of the sessions of every server a that    *)
(* answered are the rows the same cycle leaves had b answered, whatever    *)
(* b's answer.                                                             *)
(***************************************************************************)
C3_IsolationAcrossHosts ==
    CycleCommitted =>
        \A b \in failed_servers :
        \A a \in RowSet(SERVERS) \ failed_servers :
        \A res \in {h \in HostResults : h.ok} :
            LET other == CheckCompletedSessions(db_sessions, startUsers,
                             SnapshotWith(1, b, GetActiveSessions(res)), current_time)
            IN  {r \in RowSet(other.active) : r.SessionId \in IdsOf(a)}
                    = {r \in RowSet(dbActive) : r.SessionId \in IdsOf(a)}

C5_Idempotent ==
    CycleCommitted =>
        \A d \in Delays :
            LET r == CheckCompletedSessions(dbActive, dbUsers, all_active_sessions,
                                            current_time + CHECK_INTERVAL + d)
            IN  ~r.raised /\ r.active = dbActive /\ r.users = dbUsers

\* a committed cycle that both closed out a session and inserted one
C5_Witness ==
    /\ CycleCommitted
    /\ completed_sessions # <<>>
    /\ \E i \in DOMAIN all_active_sessions :
           ~SessionExists(db_sessions, all_active_sessions[i].SessionId)

(***************************************************************************)
(* C6.  Two servers that report, in the same cycle, the same session id    *)
(* for different users both get a row of their own: after the commit the   *)
(* table holds a row with that id for each of the two users.               *)
(***************************************************************************)
C6_SameIdTrackedDistinctly ==
    CycleCommitted =>
        \A i, j \in DOMAIN all_active_sessions :
            (/\ session_server[i] # session_server[j]
             /\ all_active_sessions[i].SessionId = all_active_sessions[j].SessionId
             /\ all_active_sessions[i].Username # all_active_sessions[j].Username
             /\ ~SessionExists(db_sessions, all_active_sessions[i].SessionId))
            => (/\ all_active_sessions[i] \in RowSet(dbActive)
                /\ all_active_sessions[j] \in RowSet(dbActive))

(***************************************************************************)
(* C7.  A stored logon time that does not parse during closeout does not   *)
(* end the process: main never returns because of an exception.            *)
(***************************************************************************)
C7_ParseErrorContained == exit_cause # "exception"

(***************************************************************************)
(* C8.  A failed store write abandons the whole cycle: when an             *)
(* update_user_time of the cycle failed, no write of the cycle is visible  *)
(* afterwards, so the rows of the ended sessions are still stored.         *)
(***************************************************************************)
C8_StorageErrorAbandonsCycle ==
    (pc = "sleep" /\ failed_updates # <<>>) =>
        (dbActive = db_sessions /\ dbUsers = startUsers)

C10_IgnoredUserExcluded ==
    /\ \A i \in DOMAIN all_active_sessions :
           all_active_sessions[i].Username # IgnoredUser
    /\ \A r \in RowSet(dbActive) \cup RowSet(txActive) :
           r.Username = IgnoredUser =>
               (recHost[r.SessionId] = "none" /\ \E st \in InitialStores : r \in RowSet(st))
    /\ IgnoredUser \notin DOMAIN dbUsers
    /\ CycleCommitted =>
           \A r \in RowSet(db_sessions) :
               (/\ r.Username = IgnoredUser
                /\ r.SessionId \notin ActiveSessionIds(all_active_sessions))
               => (/\ ~SessionExists(dbActive, r.SessionId)
                   /\ \A k \in DOMAIN failed_updates :
                          failed_updates[k].Username # IgnoredUser)

\* a cycle has deleted the stored row of the ignored user
C10_Witness ==
    /\ CycleCommitted
    /\ \E r \in RowSet(db_sessions) :
           /\ r.Username = IgnoredUser
           /\ r.SessionId \notin ActiveSessionIds(all_active_sessions)
           /\ ~SessionExists(dbActive, r.SessionId)


(***************************************************************************)
(* Helpers of the closeout amounts.                                        *)
(***************************************************************************)
\* the stored rows whose id the cycle's snapshot lacks, lines 152-153
ClosedRows ==
    SelectSeq(db_sessions,
              LAMBDA r : r.SessionId \notin ActiveSessionIds(all_active_sessions))

\* round((t - logon) / 60) summed over the rows of user u, lines 155-156
RECURSIVE OwedMinutes(_, _, _)
OwedMinutes(rows, t, u) ==
    IF rows = <<>> THEN 0
    ELSE (IF Head(rows).Username = u
          THEN RoundMinutes(t - Strptime(Head(rows).LogonTime)) ELSE 0)
         + OwedMinutes(Tail(rows), t, u)

(***************************************************************************)
(* C11  Restart durability: a row that was stored when the script was      *)
(* stopped and started again, and that a later committed cycle closes at   *)
(* current_time, has round((current_time - logon) / 60) minutes recorded   *)
(* for its user, computed from the stored logon time.                      *)
(***************************************************************************)
C11_RestartDurable ==
    CycleCommitted =>
        \A i \in DOMAIN ClosedRows :
            LET r == ClosedRows[i]
            IN  (r.SessionId \in survived /\ r.Username \in TrackedUsers) =>
                    TotalMinutes(dbUsers, r.Username)
                        = TotalMinutes(startUsers, r.Username)
                          + OwedMinutes(ClosedRows, current_time, r.Username)

(***************************************************************************)
(* C12  Cancellation is honoured only between cycles: when the operator's  *)
(* interrupt has stopped the process, no reconciliation was cut short, so  *)
(* no write of an open transaction was discarded.                          *)
(***************************************************************************)
C12_InterruptBetweenCycles == exit_cause = "interrupt" => ~lost_tx

(***************************************************************************)
(* C13  Closeout amount: a committed cycle adds to each user's total       *)
(* exactly round((current_time - logon) / 60) for every stored row of the  *)
(* user that the snapshot lacks, and nothing for the rows still present.   *)
(***************************************************************************)
C13_CloseoutAmount ==
    CycleCommitted =>
        \A u \in TrackedUsers :
            TotalMinutes(dbUsers, u) - TotalMinutes(startUsers, u)
                = OwedMinutes(ClosedRows, current_time, u)

(***************************************************************************)
(* C14  The upsert of update_user_time increments: once the update loop    *)
(* of a cycle has run, every call has taken effect, and each user's total  *)
(* is the total before the cycle plus the durations of all of the user's   *)
(* sessions the cycle closed.                                              *)
(***************************************************************************)
C14_UpsertIncrements ==
    pc \in {"insert", "commit"} =>
        /\ failed_updates = <<>>
        /\ \A u \in TrackedUsers :
               TotalMinutes(dbUsers, u)
                   = TotalMinutes(startUsers, u)
                     + CompletedMinutes(completed_sessions, u)

(***************************************************************************)
(* C15  After a committed cycle in which every server answered, the ids    *)
(* stored in ActiveSessions are exactly the ids of the cycle's filtered    *)
(* snapshot.                                                               *)
(***************************************************************************)
C15_StoredIdsAreSnapshotIds ==
    (CycleCommitted /\ failed_servers = {}) =>
        ActiveSessionIds(dbActive) = ActiveSessionIds(all_active_sessions)

\* a cycle of C15 that both closed a stored row and inserted a new one
C15_Witness ==
    /\ CycleCommitted
    /\ failed_servers = {}
    /\ Len(ClosedRows) > 0
    /\ \E i \in DOMAIN all_active_sessions :
           ~SessionExists(db_sessions, all_active_sessions[i].SessionId)

(***************************************************************************)
(* C16  A stored row whose id the snapshot also carries is left as it was  *)
(* inserted: after the committed cycle the table holds exactly that row    *)
(* for the id, whatever username and logon time the observation carries,   *)
(* and the cycle completes no session and changes no total on its account. *)
(***************************************************************************)
C16_StoredAndObservedUntouched ==
    CycleCommitted =>
        /\ \A i \in DOMAIN db_sessions :
               LET r == db_sessions[i]
               IN  r.SessionId \in ActiveSessionIds(all_active_sessions) =>
                       {dbActive[k] : k \in {j \in DOMAIN dbActive :
                                                dbActive[j].SessionId = r.SessionId}}
                           = {r}
        /\ Len(completed_sessions) = Len(ClosedRows)
        /\ ClosedRows = <<>> => dbUsers = startUsers

\* a committed cycle of C16 whose snapshot carries a stored id under another
\* username or logon time
C16_Witness ==
    /\ CycleCommitted
    /\ \E i \in DOMAIN db_sessions : \E j \in DOMAIN all_active_sessions :
           /\ db_sessions[i].SessionId = all_active_sessions[j].SessionId
           /\ db_sessions[i] # all_active_sessions[j]
           /\ db_sessions[i].Username # IgnoredUser

(***************************************************************************)
(* C17  For every session of the snapshot whose id was not stored when the *)
(* cycle began, the committed cycle leaves exactly one row with that id,   *)
(* and it is the first session of the snapshot with the id, username and   *)
(* logon time as observed; this holds when the id occurs more than once in *)
(* the snapshot, and the cycle has met no storage error.                   *)
(***************************************************************************)
C17_NewSessionInsertedOnce ==
    CycleCommitted =>
        /\ ~storage_fault
        /\ \A i \in DOMAIN all_active_sessions :
               LET id    == all_active_sessions[i].SessionId
                   first == CHOOSE j \in DOMAIN all_active_sessions :
                                /\ all_active_sessions[j].SessionId = id
                                /\ \A k \in 1..(j - 1) :
                                       all_active_sessions[k].SessionId # id
                   at    == {k \in DOMAIN dbActive : dbActive[k].SessionId = id}
               IN  ~SessionExists(db_sessions, id) =>
                       /\ Cardinality(at) = 1
                       /\ \A k \in at : dbActive[k] = all_active_sessions[first]

\* a committed cycle of C17 whose snapshot carries a new id twice, with
\* different usernames or logon times
C17_Witness ==
    /\ CycleCommitted
    /\ \E i, j \in DOMAIN all_active_sessions :
           /\ i < j
           /\ all_active_sessions[i].SessionId = all_active_sessions[j].SessionId
           /\ all_active_sessions[i] # all_active_sessions[j]
           /\ ~SessionExists(db_sessions, all_active_sessions[i].SessionId)

(***************************************************************************)
(* C19  Reconciliation starts only after the fetch of every configured     *)
(* server has returned, and only one reconciliation is in flight: main is  *)
(* inside check_completed_sessions only with the loop over SERVERS         *)
(* finished, and the one write transaction of the program is open only     *)
(* while main is inside that call.                                         *)
(***************************************************************************)
C19_ReconcileAfterAllFetches ==
    /\ pc \in {"closeout"} \cup InCheck => server = Len(SERVERS) + 1
    /\ txOpen => pc \in InCheck

\* a reconciliation of C19 in flight with writes pending, after one server's
\* fetch failed and another's answered with a session
C19_Witness ==
    /\ pc \in InCheck
    /\ txOpen
    /\ failed_servers # {}
    /\ all_active_sessions # <<>>

(***************************************************************************)
(* The scheduler left to itself: no interrupt, no kill, no storage fault.  *)
(* main is one thread that executes its statements in turn, subprocess.run *)
(* returns within its timeout and time.sleep returns, so every step that   *)
(* can be taken is taken: weak fairness of the loop's steps.               *)
(***************************************************************************)
LiveNext ==
    \/ FetchServer
    \/ Closeout
    \/ UpdateUsers
    \/ InsertNew
    \/ Commit
    \/ Sleep

LiveSpec == Init /\ [][LiveNext]_vars /\ WF_vars(LiveNext)

(***************************************************************************)
(* C18  Liveness of the scheduler: unless cancelled, a cycle that has      *)
(* fetched every server runs to its end, where main sleeps and goes on to  *)
(* the next cycle; and a stored session that a cycle finds absent, with    *)
(* every server polled successfully, is eventually closed out.             *)
(***************************************************************************)
C18_SchedulerLive ==
    /\ (pc = "closeout") ~> (pc = "sleep")
    /\ \A id \in NumericIds :
           (/\ pc = "closeout"
            /\ failed_servers = {}
            /\ SessionExists(dbActive, id)
            /\ id \notin ActiveSessionIds(all_active_sessions))
               ~> ~SessionExists(dbActive, id)

=============================================================================
